---- MODULE Spec2Model ----
(***************************************************************************)
(* llm-cache: the SQLite cache store (src/llm_cache/cache.py), the request *)
(* fingerprint (src/llm_cache/hasher.py) and the caching proxy             *)
(* (src/llm_cache/proxy.py) as a state machine.                            *)
(*                                                                         *)
(* Python's None is the empty tuple; a JSON object is a record; an         *)
(* Optional[int] is None or the one-element tuple Some(n).  The cache      *)
(* table is the sequence of its rows in rowid order.  Every sqlite3        *)
(* transaction of the code is one step of the thread that runs it.         *)
(***************************************************************************)
EXTENDS Integers, Sequences, FiniteSets, TLC

VARIABLES
    ttl_seconds,   \* Cache.ttl_seconds : Optional[int]
    max_entries,   \* Cache.max_entries : Optional[int]
    cache,         \* table "cache": rows in rowid order
    stats,         \* table "stats": [hits, misses]
    clock,         \* what time.time() returns
    pc,            \* per thread: the statement it is about to run
    frame,         \* per thread: locals of the Cache method it runs (kept after return)
    req,           \* per thread: locals of _handle_chat_completion (kept after return)
    calls,         \* number of further Cache calls and proxy requests the callers make
    written,       \* history: per stored key, the arguments of the set that wrote it
    returned       \* history: get calls that returned a value / None since the last clear

vars == <<ttl_seconds, max_entries, cache, stats, clock, pc, frame, req, calls,
          written, returned>>

-----------------------------------------------------------------------------
(* Bounds and input sets *)

MaxCalls == 3
MaxTick == 1
MaxReqs == 3
MaxTtlCalls == 3
MaxLruCalls == 4
MaxGetsCalls == 3
MaxPairCalls == 3
MaxRaceCalls == 3
MaxHashEdits == 2
MaxLazyCalls == 3
MaxClearCalls == 4
MaxSetCalls == 3
MaxFrameCalls == 4
MaxEvictCalls == 3
MaxSameReqs == 2
DaySeconds == 86400

None == <<>>
Some(x) == <<x>>

T1 == "t1"
T2 == "t2"
Threads == {T1, T2}

StoreKeys == {"A", "B"}
Models == {"m1"}
\* json values handed to Cache.set: null and two objects {"id": n}
Dicts == {[id |-> 1], [id |-> 2]}
Values == {None} \cup Dicts
TtlArgs == {None, Some(0), Some(1)}
TtlConfigs == {None, Some(1)}
MaxEntriesConfigs == {None, Some(0), Some(1)}
OlderThanArgs == {None, Some(0), Some(1)}
\* the instants the clock can show: a few seconds, and one more than a day later
Instants == (0 .. MaxTick) \cup {DaySeconds + 1}

-----------------------------------------------------------------------------
(* json.dumps / json.loads on the values above *)

dumps(v) ==
    IF v = None THEN "null" ELSE "{\"id\": " \o ToString(v.id) \o "}"

loads(s) ==
    CHOOSE v \in Values : dumps(v) = s

-----------------------------------------------------------------------------
(* The cache table *)

Row(key, response, model, created_at, expires_at, hit_count, last_accessed) ==
    [key |-> key, response |-> response, model |-> model,
     created_at |-> created_at, expires_at |-> expires_at,
     hit_count |-> hit_count, last_accessed |-> last_accessed]

StoredKeys(c) == {c[i].key : i \in DOMAIN c}

RowOf(c, k) == c[CHOOSE i \in DOMAIN c : c[i].key = k]

\* SELECT response, expires_at FROM cache WHERE key = ? ; fetchone()
SelectRow(c, k) ==
    IF k \in StoredKeys(c)
    THEN Some([response |-> RowOf(c, k).response, expires_at |-> RowOf(c, k).expires_at])
    ELSE None

\* DELETE FROM cache WHERE key = ?
DeleteKey(c, k) == SelectSeq(c, LAMBDA r : r.key # k)

\* a write that keeps the hit_count of the row it replaces
InsertOrReplace_KeepsHits(c, row) ==
    Append(DeleteKey(c, row.key),
           IF row.key \in StoredKeys(c)
           THEN [row EXCEPT !.hit_count = RowOf(c, row.key).hit_count]
           ELSE row)

\* INSERT OR REPLACE: the old row of the key goes, the new row gets the next rowid
InsertOrReplace(c, row) == Append(DeleteKey(c, row.key), row)

\* UPDATE cache SET hit_count = hit_count + 1, last_accessed = ? WHERE key = ?
UpdateHit(c, k, now) ==
    [i \in DOMAIN c |->
        IF c[i].key = k
        THEN [c[i] EXCEPT !.hit_count = @ + 1, !.last_accessed = now]
        ELSE c[i]]

\* the comparison turned round
IsExpired_Flipped(expires_at, now) == expires_at # None /\ expires_at[1] > now

\* expires_at is not None and expires_at < now
IsExpired(expires_at, now) == expires_at # None /\ expires_at[1] < now

\* ttl = ttl_seconds if ttl_seconds is not None else self.ttl_seconds
EffectiveTtl(ttl_arg, default) == IF ttl_arg # None THEN ttl_arg ELSE default

\* expires_at = now + ttl if ttl is not None else None
ExpiresAt(now, ttl) == IF ttl # None THEN Some(now + ttl[1]) ELSE None

\* if self.max_entries:   (None and 0 are both falsy)
Truthy(n) == n # None /\ n[1] # 0

\* ORDER BY last_accessed ASC over idx_last_accessed: equal keys come in rowid order
ComesBefore(c, i, j) ==
    \/ c[i].last_accessed < c[j].last_accessed
    \/ c[i].last_accessed = c[j].last_accessed /\ i < j

\* SELECT key FROM cache ORDER BY last_accessed ASC LIMIT n
OldestKeys(c, n) ==
    {c[i].key : i \in {j \in DOMAIN c :
                        Cardinality({h \in DOMAIN c : ComesBefore(c, h, j)}) < n}}

\* an eviction that reaps the entries past their expiry instead
EvictOldest_Expired(c, to_delete) ==
    SelectSeq(c, LAMBDA r : ~IsExpired(r.expires_at, clock))

\* DELETE FROM cache WHERE key IN (SELECT key ... LIMIT to_delete)
EvictOldest(c, to_delete) ==
    SelectSeq(c, LAMBDA r : r.key \notin OldestKeys(c, to_delete))

\* the cutoff instant itself taken as older
DeleteOlder_Inclusive(c, cutoff) == SelectSeq(c, LAMBDA r : ~(r.created_at <= cutoff))

\* DELETE FROM cache WHERE created_at < cutoff
DeleteOlder(c, cutoff) == SelectSeq(c, LAMBDA r : ~(r.created_at < cutoff))

\* SELECT model, COUNT(*) FROM cache GROUP BY model
ByModel(c) ==
    [m \in {c[i].model : i \in DOMAIN c} |->
        Cardinality({i \in DOMAIN c : c[i].model = m})]

RECURSIVE Gcd(_, _)
Gcd(a, b) == IF b = 0 THEN a ELSE Gcd(b, a % b)

\* hits / total if total > 0 else 0.0, as the fraction in lowest terms
HitRate(h, m) ==
    IF h + m > 0
    THEN <<h \div Gcd(h, h + m), (h + m) \div Gcd(h, h + m)>>
    ELSE <<0, 1>>

-----------------------------------------------------------------------------
(* Locals of the Cache method a thread runs *)

BlankFrame ==
    [name |-> "none", key |-> "", response |-> None, model |-> "",
     ttl_arg |-> None, older |-> None, now |-> 0, expires_at |-> None,
     row |-> None, read |-> None, count |-> 0, result |-> None, deleted |-> FALSE,
     snapshot |-> None, wrote |-> None, follows_set |-> FALSE, evicted |-> {},
     before |-> [hits |-> 0, misses |-> 0]]

\* history: the arguments of the set that wrote the entry now stored under k
\* (None when no entry is stored)
Wrote(k) == IF k \in DOMAIN written THEN Some(written[k]) ELSE None

\* history: the call before this one (by the same caller) was set(k, ...)
FollowsSet(f, k) == f.name = "set" /\ f.key = k

\* locals of _handle_chat_completion, with the number of calls it has made
NoReq ==
    [active |-> FALSE, data |-> None, stream |-> FALSE, model |-> "",
     cache_key |-> "", cached |-> None, result |-> None,
     response_data |-> None, response |-> None, had_entry |-> FALSE,
     before |-> [hits |-> 0, misses |-> 0],
     n_hash |-> 0, n_get |-> 0, n_set |-> 0, n_forward |-> 0]

\* where a Cache method returns to: the proxy handler, or the idle API caller
AfterGet(p) == IF req[p].active THEN "h_cached" ELSE "idle"
AfterSet(p) == IF req[p].active THEN "h_stored" ELSE "idle"

\* the history of writes, kept for the keys still stored
Kept(w, c) == [k \in StoredKeys(c) |-> w[k]]

-----------------------------------------------------------------------------
(* Cache.get *)

\* now = time.time()
EnterGet(p, k) ==
    /\ frame' = [frame EXCEPT ![p] =
            [BlankFrame EXCEPT !.name = "get", !.key = k, !.now = clock,
                               !.wrote = Wrote(k),
                               !.follows_set = FollowsSet(frame[p], k),
                               !.before = stats]]
    /\ pc' = [pc EXCEPT ![p] = "get_select"]

GetCall(p, k) ==
    /\ pc[p] = "idle"
    /\ calls > 0
    /\ EnterGet(p, k)
    /\ calls' = calls - 1
    /\ UNCHANGED <<ttl_seconds, max_entries, cache, stats, clock, req, written, returned>>

\* the SELECT, in a transaction of its own
GetSelect(p) ==
    /\ pc[p] = "get_select"
    /\ frame' = [frame EXCEPT ![p].row = SelectRow(cache, frame[p].key),
                              ![p].read = Wrote(frame[p].key)]
    /\ pc' = [pc EXCEPT ![p] = "get_write"]
    /\ UNCHANGED <<ttl_seconds, max_entries, cache, stats, clock, req, calls, written, returned>>

\* the value get returns, decided from the row it read
GetResult(f) ==
    IF f.row = None \/ IsExpired(f.row[1].expires_at, f.now)
    THEN None
    ELSE loads(f.row[1].response)

\* the three branches after fetchone(): miss, expired, hit; then commit and return
GetWrite(p) ==
    /\ pc[p] = "get_write"
    /\ LET f == frame[p] IN
        /\ IF f.row = None
           THEN /\ cache' = cache
                /\ stats' = [stats EXCEPT !.misses = @ + 1]
           ELSE IF IsExpired(f.row[1].expires_at, f.now)
           THEN /\ cache' = DeleteKey(cache, f.key)
                /\ stats' = [stats EXCEPT !.misses = @ + 1]
           ELSE /\ cache' = UpdateHit(cache, f.key, f.now)
                /\ stats' = [stats EXCEPT !.hits = @ + 1]
        /\ frame' = [frame EXCEPT ![p].result = GetResult(f)]
        /\ returned' = IF GetResult(f) # None
                       THEN [returned EXCEPT !.value = @ + 1]
                       ELSE [returned EXCEPT !.absent = @ + 1]
    /\ written' = Kept(written, cache')
    /\ pc' = [pc EXCEPT ![p] = AfterGet(p)]
    /\ req' = IF req[p].active
              THEN [req EXCEPT ![p].cached = frame'[p].result]
              ELSE req
    /\ UNCHANGED <<ttl_seconds, max_entries, clock, calls>>

-----------------------------------------------------------------------------
(* Cache.set and Cache._evict_lru *)

\* now = time.time(); ttl; expires_at
EnterSet(p, k, v, m, t) ==
    /\ frame' = [frame EXCEPT ![p] =
            [BlankFrame EXCEPT !.name = "set", !.key = k, !.response = v,
                               !.model = m, !.ttl_arg = t, !.now = clock,
                               !.expires_at = ExpiresAt(clock, EffectiveTtl(t, ttl_seconds))]]
    /\ pc' = [pc EXCEPT ![p] = "set_insert"]

SetCall(p, k, v, m, t) ==
    /\ pc[p] = "idle"
    /\ calls > 0
    /\ EnterSet(p, k, v, m, t)
    /\ calls' = calls - 1
    /\ UNCHANGED <<ttl_seconds, max_entries, cache, stats, clock, req, written, returned>>

\* the row set writes
NewRow(f) == Row(f.key, dumps(f.response), f.model, f.now, f.expires_at, 0, f.now)

\* INSERT OR REPLACE ... ; commit; then "if self.max_entries:"
SetInsert(p) ==
    /\ pc[p] = "set_insert"
    /\ cache' = InsertOrReplace(cache, NewRow(frame[p]))
    /\ written' = [k \in StoredKeys(cache') |->
                     IF k = frame[p].key
                     THEN [response |-> frame[p].response, now |-> frame[p].now,
                           ttl |-> EffectiveTtl(frame[p].ttl_arg, ttl_seconds),
                           by |-> p]
                     ELSE written[k]]
    /\ pc' = [pc EXCEPT ![p] = IF Truthy(max_entries) THEN "evict_count" ELSE AfterSet(p)]
    /\ UNCHANGED <<ttl_seconds, max_entries, stats, clock, frame, req, calls, returned>>

\* SELECT COUNT(*) FROM cache; "if count > self.max_entries:"
EvictCount(p) ==
    /\ pc[p] = "evict_count"
    /\ frame' = [frame EXCEPT ![p].count = Len(cache)]
    /\ pc' = [pc EXCEPT ![p] =
                IF Len(cache) > max_entries[1] THEN "evict_delete" ELSE AfterSet(p)]
    /\ UNCHANGED <<ttl_seconds, max_entries, cache, stats, clock, req, calls, written, returned>>

\* to_delete = count - self.max_entries; DELETE ... LIMIT to_delete; commit
EvictDelete(p) ==
    /\ pc[p] = "evict_delete"
    /\ cache' = EvictOldest(cache, frame[p].count - max_entries[1])
    /\ written' = Kept(written, cache')
    /\ pc' = [pc EXCEPT ![p] = AfterSet(p)]
    /\ frame' = [frame EXCEPT ![p].evicted =
                    {cache[i] : i \in {j \in DOMAIN cache : cache[j].key \notin StoredKeys(cache')}}]
    /\ UNCHANGED <<ttl_seconds, max_entries, stats, clock, req, calls, returned>>

-----------------------------------------------------------------------------
(* Cache.delete, Cache.clear, Cache.stats *)

\* one transaction: DELETE FROM cache WHERE key = ?; return cursor.rowcount > 0
DeleteCall(p, k) ==
    /\ pc[p] = "idle"
    /\ calls > 0
    /\ cache' = DeleteKey(cache, k)
    /\ written' = Kept(written, cache')
    /\ frame' = [frame EXCEPT ![p] =
            [BlankFrame EXCEPT !.name = "delete", !.key = k,
                               !.deleted = (k \in StoredKeys(cache))]]
    /\ calls' = calls - 1
    /\ UNCHANGED <<ttl_seconds, max_entries, stats, clock, pc, req, returned>>

\* one transaction: the DELETE (all rows, or those created before the cutoff)
\* and "UPDATE stats SET value = 0"
ClearCall(p, older_than_days) ==
    /\ pc[p] = "idle"
    /\ calls > 0
    /\ cache' = IF older_than_days # None
                THEN DeleteOlder(cache, clock - older_than_days[1] * DaySeconds)
                ELSE <<>>
    /\ stats' = [hits |-> 0, misses |-> 0]
    /\ written' = Kept(written, cache')
    /\ returned' = [value |-> 0, absent |-> 0]
    /\ frame' = [frame EXCEPT ![p] =
            [BlankFrame EXCEPT !.name = "clear", !.older = older_than_days,
                               !.now = clock,
                               !.evicted = {cache[i] : i \in {j \in DOMAIN cache :
                                                cache[j].key \notin StoredKeys(cache')}}]]
    /\ calls' = calls - 1
    /\ UNCHANGED <<ttl_seconds, max_entries, clock, pc, req>>

\* SELECT key, value FROM stats
StatsCall(p) ==
    /\ pc[p] = "idle"
    /\ calls > 0
    /\ frame' = [frame EXCEPT ![p] =
            [BlankFrame EXCEPT !.name = "stats",
                               !.snapshot = Some([hits |-> stats.hits, misses |-> stats.misses])]]
    /\ pc' = [pc EXCEPT ![p] = "stats_count"]
    /\ calls' = calls - 1
    /\ UNCHANGED <<ttl_seconds, max_entries, cache, stats, clock, req, written, returned>>

\* SELECT COUNT(*) FROM cache
StatsCount(p) ==
    /\ pc[p] = "stats_count"
    /\ frame' = [frame EXCEPT ![p].count = Len(cache)]
    /\ pc' = [pc EXCEPT ![p] = "stats_models"]
    /\ UNCHANGED <<ttl_seconds, max_entries, cache, stats, clock, req, calls, written, returned>>

\* SELECT model, COUNT(*) ... GROUP BY model; then the returned dict
StatsModels(p) ==
    /\ pc[p] = "stats_models"
    /\ LET f == frame[p]
           h == f.snapshot[1].hits
           m == f.snapshot[1].misses
       IN frame' = [frame EXCEPT ![p].snapshot =
                Some([hits |-> h, misses |-> m, hit_rate |-> HitRate(h, m),
                      entries |-> f.count, by_model |-> ByModel(cache)])]
    /\ pc' = [pc EXCEPT ![p] = "idle"]
    /\ UNCHANGED <<ttl_seconds, max_entries, cache, stats, clock, req, calls, written, returned>>

\* time passes
Tick ==
    /\ \E t \in Instants : t > clock /\ clock' = t
    /\ UNCHANGED <<ttl_seconds, max_entries, cache, stats, pc, frame, req, calls, written, returned>>

-----------------------------------------------------------------------------------------------------------------------------------------------------
(* The store used through its API *)

\* Cache.__init__ and _init_db on a new database file
InitStore(ttls, maxes, n) ==
    /\ ttl_seconds \in ttls
    /\ max_entries \in maxes
    /\ cache = <<>>
    /\ stats = [hits |-> 0, misses |-> 0]
    /\ clock = 0
    /\ pc = [p \in Threads |-> "idle"]
    /\ frame = [p \in Threads |-> BlankFrame]
    /\ req = [p \in Threads |-> NoReq]
    /\ calls = n
    /\ written = <<>>
    /\ returned = [value |-> 0, absent |-> 0]

Init == InitStore(TtlConfigs, MaxEntriesConfigs, MaxCalls)

Next ==
    \/ \E k \in StoreKeys : GetCall(T1, k)
    \/ GetSelect(T1)
    \/ GetWrite(T1)
    \/ \E k \in StoreKeys, v \in Values, m \in Models, t \in TtlArgs : SetCall(T1, k, v, m, t)
    \/ SetInsert(T1)
    \/ EvictCount(T1)
    \/ EvictDelete(T1)
    \/ \E k \in StoreKeys : DeleteCall(T1, k)
    \/ \E d \in OlderThanArgs : ClearCall(T1, d)
    \/ StatsCall(T1)
    \/ StatsCount(T1)
    \/ StatsModels(T1)
    \/ Tick

Spec == Init /\ [][Next]_vars

AllIdle == \A p \in Threads : pc[p] = "idle"

\* a get call of thread p has returned (and p has not called again)
GetReturned(p) == pc[p] = "idle" /\ frame[p].name = "get"

\* the instant at which the entry written by w expires, per the arguments of set
Deadline(w) == w.now + w.ttl[1]

(* C1: set(k, v, m) followed immediately by get(k), with no TTL elapsed, returns *)
(* a value equal to v, and that result is a present one, not None.               *)
C1_RoundTrip ==
    \A p \in Threads :
        LET f == frame[p] IN
        (GetReturned(p) /\ f.follows_set /\ f.wrote # None
            /\ (f.wrote[1].ttl = None \/ f.now <= Deadline(f.wrote[1])))
        => (f.result = f.wrote[1].response /\ f.result # None)

\* the same for the values that are not null
C1_RoundTripOfObjects ==
    \A p \in Threads :
        LET f == frame[p] IN
        (GetReturned(p) /\ f.follows_set /\ f.wrote # None
            /\ f.wrote[1].response # None
            /\ (f.wrote[1].ttl = None \/ f.now <= Deadline(f.wrote[1])))
        => (f.result = f.wrote[1].response /\ f.result # None)

(* C4: with max_entries = N configured (not None), whenever no operation is in *)
(* flight the table holds at most N rows.                                       *)
C4_CapacityBound ==
    (AllIdle /\ max_entries # None) => Len(cache) <= max_entries[1]

\* the same for N >= 1
C4_CapacityBoundPositive ==
    (AllIdle /\ max_entries # None /\ max_entries[1] >= 1) => Len(cache) <= max_entries[1]

(* C6: hits and misses equal the numbers of get calls that returned a value and *)
(* that returned None since the store was created or last cleared, and stats()  *)
(* reports them with hit_rate = hits / (hits + misses), or 0 when both are 0.   *)
C6_StatsConsistency ==
    /\ stats.hits = returned.value
    /\ stats.misses = returned.absent
    /\ \A p \in Threads :
          (pc[p] = "idle" /\ frame[p].name = "stats") =>
              /\ frame[p].snapshot[1].hits = returned.value
              /\ frame[p].snapshot[1].misses = returned.absent
              /\ frame[p].snapshot[1].hit_rate = HitRate(returned.value, returned.absent)

\* a step in which thread p calls clear / calls delete / runs a statement of set
IsClearStep(p) == calls' = calls - 1 /\ frame'[p].name = "clear" /\ frame'[p] # frame[p]
IsDeleteStep(p) == calls' = calls - 1 /\ frame'[p].name = "delete" /\ frame'[p] # frame[p]
IsSetStep(p) ==
    \/ calls' = calls - 1 /\ frame'[p].name = "set" /\ pc'[p] = "set_insert"
    \/ pc[p] \in {"set_insert", "evict_count", "evict_delete"} /\ pc'[p] # pc[p]

\* the rest of C6: the counters decrease only in a clear, every clear (with or
\* without older_than) zeroes both, set and delete leave them alone
C6_CounterSteps ==
    [][ /\ (stats'.hits < stats.hits \/ stats'.misses < stats.misses)
            => \E p \in Threads : IsClearStep(p)
        /\ (\E p \in Threads : IsClearStep(p)) => stats' = [hits |-> 0, misses |-> 0]
        /\ (\E p \in Threads : IsDeleteStep(p) \/ IsSetStep(p)) => stats' = stats
      ]_vars

-----------------------------------------------------------------------------
(* TTL expiry: one caller, the operations that touch an entry's lifetime *)

TtlKeys == {"A", "B"}
TtlValues == {None, [id |-> 1]}

InitTtl == InitStore({None, Some(1)}, {None, Some(1)}, MaxTtlCalls)

NextTtl ==
    \/ \E k \in TtlKeys : GetCall(T1, k)
    \/ GetSelect(T1)
    \/ GetWrite(T1)
    \/ \E k \in TtlKeys, v \in TtlValues, t \in TtlArgs : SetCall(T1, k, v, "m1", t)
    \/ SetInsert(T1)
    \/ EvictCount(T1)
    \/ EvictDelete(T1)
    \/ \E k \in TtlKeys : DeleteCall(T1, k)
    \/ \E d \in OlderThanArgs : ClearCall(T1, d)
    \/ Tick

SpecTtl == InitTtl /\ [][NextTtl]_vars

(* C3: a get(k) issued after the clock passed set-time + ttl (ttl: the override, *)
(* else the store default) returns None, leaves no entry under k and counts one  *)
(* miss; a get(k) issued before that instant returns the value set; an entry set *)
(* with no TTL in effect is never expired: get returns its value and keeps it.   *)
C3_TtlExpiry ==
    \A p \in Threads :
        LET f == frame[p] IN
        (GetReturned(p) /\ f.wrote # None) =>
            LET w == f.wrote[1] IN
            /\ (w.ttl # None /\ f.now > Deadline(w)) =>
                    /\ f.result = None
                    /\ f.key \notin StoredKeys(cache)
                    /\ stats = [hits |-> f.before.hits, misses |-> f.before.misses + 1]
            /\ (w.ttl # None /\ f.now < Deadline(w)) => f.result = w.response
            /\ (w.ttl = None) =>
                    /\ f.result = w.response
                    /\ f.key \in StoredKeys(cache)

\* a get that found the entry past its deadline, removed it and returned None
C3_Witness ==
    \E p \in Threads :
        /\ GetReturned(p)
        /\ frame[p].wrote # None /\ frame[p].row # None
        /\ frame[p].wrote[1].ttl # None
        /\ frame[p].now > Deadline(frame[p].wrote[1])
        /\ frame[p].result = None
        /\ frame[p].key \notin StoredKeys(cache)
        /\ stats.misses = frame[p].before.misses + 1

-----------------------------------------------------------------------------
(* LRU eviction: one caller filling a bounded store *)

LruKeys == {"A", "B", "C"}

InitLru == InitStore({None}, {Some(0), Some(1), Some(2)}, MaxLruCalls)

NextLru ==
    \/ \E k \in LruKeys : GetCall(T1, k)
    \/ GetSelect(T1)
    \/ GetWrite(T1)
    \/ \E k \in LruKeys : SetCall(T1, k, [id |-> 1], "m1", None)
    \/ SetInsert(T1)
    \/ EvictCount(T1)
    \/ EvictDelete(T1)
    \/ Tick

SpecLru == InitLru /\ [][NextLru]_vars

\* the step in which a set call of thread p returns
SetReturns(p) ==
    /\ pc[p] \in {"set_insert", "evict_count", "evict_delete"}
    /\ pc'[p] = "idle"

\* the table once the set call of thread p has inserted its row (one caller)
AfterInsert(p) ==
    IF pc[p] = "set_insert" THEN InsertOrReplace(cache, NewRow(frame[p])) ELSE cache

\* the set call of p returns having removed exactly one row, one that no other
\* row precedes in last_accessed
EvictsOneOldest(p) ==
    LET rows == AfterInsert(p) IN
    \E i \in DOMAIN rows :
        /\ \A j \in DOMAIN rows : rows[i].last_accessed <= rows[j].last_accessed
        /\ cache' = SelectSeq(rows, LAMBDA r : r.key # rows[i].key)

(* C5: with max_entries = N, a set that brings the table to N + 1 distinct keys *)
(* evicts exactly one entry, one with the oldest last_accessed (so set A, B, C   *)
(* with N = 2 leaves B and C, and a key refreshed by get is not the victim while *)
(* an older entry exists).                                                       *)
C5_LruVictim ==
    [][ \A p \in Threads :
          (SetReturns(p) /\ max_entries # None
              /\ Len(AfterInsert(p)) = max_entries[1] + 1)
          => EvictsOneOldest(p)
      ]_vars

\* the same for N >= 1
C5_LruVictimPositive ==
    [][ \A p \in Threads :
          (SetReturns(p) /\ max_entries # None /\ max_entries[1] >= 1
              /\ Len(AfterInsert(p)) = max_entries[1] + 1)
          => EvictsOneOldest(p)
      ]_vars

\* max_entries = 2; set A, set B, get A after the clock moved, set C: B is evicted
C5_ProtectedByGet ==
    ~ ( /\ max_entries = Some(2)
        /\ AllIdle
        /\ StoredKeys(cache) = {"A", "C"}
        /\ RowOf(cache, "A").hit_count = 1 )

-----------------------------------------------------------------------------
(* Concurrent readers: two threads whose get calls overlap; set calls run alone *)

NoSetInFlight == \A p \in Threads : pc[p] \in {"idle", "get_select", "get_write"}

InitGets == InitStore({None}, {None}, MaxGetsCalls)

NextGets ==
    \/ \E p \in Threads :
          \/ NoSetInFlight /\ GetCall(p, "A")
          \/ GetSelect(p)
          \/ GetWrite(p)
          \/ AllIdle /\ \E t \in {None, Some(1)} : SetCall(p, "A", [id |-> 1], "m1", t)
          \/ SetInsert(p)
    \/ Tick

SpecGets == InitGets /\ [][NextGets]_vars

(* C2: every get call changes the counters exactly once, in the step that ends  *)
(* it: when it returns a value, hits grows by 1, the entry's hit_count grows by *)
(* 1, its last_accessed becomes the call's now and misses stays; when it        *)
(* returns None, misses grows by 1 and hits stays.                              *)
C2_GetCountsOnce ==
    [][ \A p \in Threads :
          /\ (pc'[p] \in {"get_select", "get_write"} /\ pc'[p] # pc[p]) => stats' = stats
          /\ (pc[p] = "get_write" /\ pc'[p] # "get_write") =>
                LET f == frame'[p] IN
                /\ f.result # None =>
                      /\ stats' = [hits |-> stats.hits + 1, misses |-> stats.misses]
                      /\ f.key \in StoredKeys(cache) /\ f.key \in StoredKeys(cache')
                      /\ RowOf(cache', f.key).hit_count = RowOf(cache, f.key).hit_count + 1
                      /\ RowOf(cache', f.key).last_accessed = f.now
                /\ f.result = None =>
                      stats' = [hits |-> stats.hits, misses |-> stats.misses + 1]
      ]_vars

-----------------------------------------------------------------------------
(* hasher.py: the canonical text of a request and its digest *)

\* dict.get(key, default) on a field that may be absent
GetOr(opt, default) == IF opt # None THEN opt[1] ELSE default

\* a JSON string literal
JsonStr(x) == "\"" \o x \o "\""

\* the members of d in the order ks, joined by ","
RECURSIVE JoinFields(_, _, _)
JoinFields(d, ks, first) ==
    IF ks = <<>> THEN ""
    ELSE IF Head(ks) \in DOMAIN d
         THEN (IF first THEN "" ELSE ",") \o JsonStr(Head(ks)) \o ":" \o d[Head(ks)]
              \o JoinFields(d, Tail(ks), FALSE)
         ELSE JoinFields(d, Tail(ks), first)

\* json.dumps(d, sort_keys=True, separators=(",", ":")) of a dict whose values
\* are already JSON text; ks lists the possible keys in sorted order
JsonObject(d, ks) == "{" \o JoinFields(d, ks, TRUE) \o "}"

RECURSIVE JoinItems(_)
JoinItems(xs) ==
    IF xs = <<>> THEN ""
    ELSE IF Len(xs) = 1 THEN Head(xs)
    ELSE Head(xs) \o "," \o JoinItems(Tail(xs))

JsonArray(xs) == "[" \o JoinItems(xs) \o "]"

MessageKeys == <<"content", "name", "role", "tool_call_id", "tool_calls">>
RequestKeys == <<"max_tokens", "messages", "model", "seed", "temperature", "tools", "top_p">>

\* a field that is present only when its value is
Field(name, opt) == IF opt # None THEN [k \in {name} |-> opt[1]] ELSE <<>>

\* norm_msg without the name of the message
NormMsg_NoName(msg) ==
    [role |-> GetOr(msg.role, ""), content |-> GetOr(msg.content, "")]
    @@ Field("tool_calls", msg.tool_calls) @@ Field("tool_call_id", msg.tool_call_id)

\* norm_msg: role and content always, name / tool_calls / tool_call_id if present
NormMsg(msg) ==
    [role |-> GetOr(msg.role, ""), content |-> GetOr(msg.content, "")]
    @@ Field("name", msg.name) @@ Field("tool_calls", msg.tool_calls)
    @@ Field("tool_call_id", msg.tool_call_id)

normalize_messages(messages) == [i \in 1..Len(messages) |-> NormMsg(messages[i])]

MsgJson(nm) ==
    JsonObject([k \in DOMAIN nm |-> IF k = "tool_calls" THEN nm[k] ELSE JsonStr(nm[k])],
               MessageKeys)

\* "if tools:" is false for None and for the empty list
ToolsGiven(tools) == tools # None /\ tools[1] # <<>>

\* a dict item that is present only when its value is
OptItem(name, opt) == IF opt # None THEN <<<<name, opt[1]>>>> ELSE <<>>

\* sorted(d.items()): the items in the order of their keys, ks being the
\* possible keys in sorted order
RECURSIVE SortedItems(_, _)
SortedItems(items, ks) ==
    IF ks = <<>> THEN <<>>
    ELSE SelectSeq(items, LAMBDA it : it[1] = Head(ks)) \o SortedItems(items, Tail(ks))

\* "if value is not None: request_data[key] = value" over the sorted keywords
GivenItems(items) ==
    LET given == SelectSeq(items, LAMBDA it : it[2] # None)
    IN [i \in 1..Len(given) |-> <<given[i][1], given[i][2][1]>>]

\* request_data, as its items in insertion order; numbers and tool definitions
\* are carried as their JSON text, kwargs as <<name, value>> in call order
RequestData(messages, model, temperature, max_tokens, tools, kwargs) ==
    << <<"messages",
         JsonArray([i \in 1..Len(messages) |-> MsgJson(normalize_messages(messages)[i])])>>,
       <<"model", JsonStr(model)>> >>
    \o OptItem("temperature", temperature)
    \o OptItem("max_tokens", max_tokens)
    \o (IF ToolsGiven(tools) THEN << <<"tools", JsonArray(tools[1])>> >> ELSE <<>>)
    \o GivenItems(SortedItems(kwargs, RequestKeys))

\* json.dumps(request_data, sort_keys=True, separators=(",", ":"))
DumpsSorted(items, ks) ==
    LET sorted == SortedItems(items, ks)
    IN "{" \o JoinItems([i \in 1..Len(sorted) |->
                            JsonStr(sorted[i][1]) \o ":" \o sorted[i][2]]) \o "}"

\* hashlib.sha256(...).hexdigest(), taken as injective on the texts
Sha256(text) == "sha256(" \o text \o ")"

hash_request(messages, model, temperature, max_tokens, tools, kwargs) ==
    Sha256(DumpsSorted(RequestData(messages, model, temperature, max_tokens, tools, kwargs),
                       RequestKeys))

-----------------------------------------------------------------------------
(* proxy.py: the gateway in front of the upstream API *)

UserMsg ==
    [role |-> Some("user"), content |-> Some("hi"), name |-> None,
     tool_calls |-> None, tool_call_id |-> None]

\* the JSON payloads of the requests: absent fields are None
Payloads ==
    {[messages |-> Some(<<UserMsg>>), model |-> Some("m1"), temperature |-> t,
      max_tokens |-> None, tools |-> None, stream |-> st] :
        t \in {None, Some("0.7")}, st \in {None, Some(TRUE)}}

\* what the upstream call can give: an HTTP reply of any status whose body is
\* JSON or not, or a transport failure (requests.RequestException)
Statuses == {200, 201, 500}
NotJson == "<html>"
Bodies == {dumps(None), dumps([id |-> 1]), NotJson}
ErrorBody == "{\"error\": \"...\"}"
UpstreamReplies ==
    {[kind |-> "reply", status |-> 200, content |-> b] : b \in Bodies}
    \cup {[kind |-> "reply", status |-> st, content |-> dumps([id |-> 2])] : st \in Statuses \ {200}}
    \cup {[kind |-> "RequestException", status |-> 0, content |-> ""]}

\* the streaming branch never taken
IsStreaming_Never(data) == FALSE

\* data.get("stream", False) as a condition
IsStreaming(data) == data.stream # None /\ data.stream[1] = TRUE

\* a key that also takes top_p of the payload, as a keyword argument
CacheKeyOf_WithTopP(data) ==
    hash_request(GetOr(data.messages, <<>>), GetOr(data.model, "unknown"),
                 data.temperature, data.max_tokens, data.tools,
                 <<<<"top_p", data.top_p>>>>)

\* hash_request(messages=..., model=..., temperature=..., max_tokens=..., tools=...)
CacheKeyOf(data) ==
    hash_request(GetOr(data.messages, <<>>), GetOr(data.model, "unknown"),
                 data.temperature, data.max_tokens, data.tools, <<>>)

\* _forward_request: a Response carrying the upstream status and body, or on
\* RequestException the tuple (jsonify({"error": ...}), 502)
ForwardResult(reply) ==
    IF reply.kind = "RequestException"
    THEN [kind |-> "tuple", status |-> 502, content |-> ErrorBody]
    ELSE [kind |-> "Response", status |-> reply.status, content |-> reply.content]

\* the HTTP response a returned Response or (response, status) tuple becomes
Returned(result) == [status |-> result.status, body |-> result.content, x_cache |-> None]

\* jsonify(value) with the X-Cache header set
Jsonify(v, x_cache) == [status |-> 200, body |-> dumps(v), x_cache |-> Some(x_cache)]

\* the response of a handler that raised
ErrorResponse(st) == [status |-> st, body |-> "error", x_cache |-> None]

\* every "cached is not None" taken as true
IsHit_Always(cached) == TRUE

\* "if cached is not None:"
IsHit(cached) == cached # None

\* every reply below 500 taken as a success
IsStatusOk_Below500(result) == result.status < 500

\* "if result.status_code == 200:"
IsStatusOk(result) == result.status = 200

\* result.get_json() succeeds
IsJson(content) == \E v \in Values : dumps(v) = content

\* history, for a request as it arrives: the store holds an unexpired entry
\* under the key of its payload
HasLiveEntry(k) ==
    k \in StoredKeys(cache) /\ ~IsExpired(RowOf(cache, k).expires_at, clock)

\* the handler returns (or raises): the request is answered
Finish(p, resp, r) ==
    /\ req' = [req EXCEPT ![p] = [r EXCEPT !.active = FALSE, !.response = Some(resp)]]
    /\ pc' = [pc EXCEPT ![p] = "idle"]

\* lines 94-117: the payload, the streaming test, the key, and the call of Cache.get
HandleChatCompletion(p, data) ==
    /\ pc[p] = "idle"
    /\ calls > 0
    /\ calls' = calls - 1
    /\ LET r == [NoReq EXCEPT !.active = TRUE, !.data = Some(data),
                              !.model = GetOr(data.model, "unknown"),
                              !.had_entry = HasLiveEntry(CacheKeyOf(data)),
                              !.before = stats]
       IN IF IsStreaming(data)
          THEN /\ req' = [req EXCEPT ![p] = [r EXCEPT !.stream = TRUE]]
               /\ pc' = [pc EXCEPT ![p] = "h_forward"]
               /\ frame' = frame
          ELSE /\ req' = [req EXCEPT ![p] = [r EXCEPT !.cache_key = CacheKeyOf(data),
                                                      !.n_hash = 1, !.n_get = 1]]
               /\ EnterGet(p, CacheKeyOf(data))
    /\ UNCHANGED <<ttl_seconds, max_entries, cache, stats, clock, written, returned>>

\* lines 118-122: answer from the cache, or go on to the upstream call
CheckCached(p) ==
    /\ pc[p] = "h_cached"
    /\ IF IsHit(req[p].cached)
       THEN Finish(p, Jsonify(req[p].cached, "HIT"), req[p])
       ELSE /\ pc' = [pc EXCEPT ![p] = "h_forward"]
            /\ req' = req
    /\ UNCHANGED <<ttl_seconds, max_entries, cache, stats, clock, frame, calls, written, returned>>

\* the upstream call and what follows it: lines 105 (streaming) and 125-136
ForwardRequest(p, reply) ==
    /\ pc[p] = "h_forward"
    /\ LET result == ForwardResult(reply)
           r == [req[p] EXCEPT !.result = Some(result), !.n_forward = @ + 1]
       IN IF r.stream
          THEN Finish(p, Returned(result), r) /\ frame' = frame
          ELSE IF result.kind = "tuple"
          THEN \* result.status_code on a tuple: AttributeError
               Finish(p, ErrorResponse(500), r) /\ frame' = frame
          ELSE IF IsStatusOk(result)
          THEN IF IsJson(result.content)
               THEN /\ req' = [req EXCEPT ![p] =
                            [r EXCEPT !.response_data = loads(result.content),
                                      !.n_set = @ + 1]]
                    /\ EnterSet(p, r.cache_key, loads(result.content), r.model, None)
               ELSE \* get_json raises: BadRequest or ValueError, by library version
                    /\ \E st \in {400, 500} : Finish(p, ErrorResponse(st), r)
                    /\ frame' = frame
          ELSE Finish(p, Returned(result), r) /\ frame' = frame
    /\ UNCHANGED <<ttl_seconds, max_entries, cache, stats, clock, calls, written, returned>>

\* lines 132-134: the answer after Cache.set returned
ReplyMiss(p) ==
    /\ pc[p] = "h_stored"
    /\ Finish(p, Jsonify(req[p].response_data, "MISS"), req[p])
    /\ UNCHANGED <<ttl_seconds, max_entries, cache, stats, clock, frame, calls, written, returned>>

InitProxy == InitStore({None, Some(1)}, {None, Some(1)}, MaxReqs)

NextProxy ==
    \/ \E data \in Payloads : HandleChatCompletion(T1, data)
    \/ GetSelect(T1)
    \/ GetWrite(T1)
    \/ CheckCached(T1)
    \/ \E reply \in UpstreamReplies : ForwardRequest(T1, reply)
    \/ SetInsert(T1)
    \/ EvictCount(T1)
    \/ EvictDelete(T1)
    \/ ReplyMiss(T1)
    \/ Tick

SpecProxy == InitProxy /\ [][NextProxy]_vars

\* the request thread p handled last has been answered
Finished(p) == ~req[p].active /\ req[p].response # None

\* this step is one of thread p
StepOf(p) == pc'[p] # pc[p] \/ req'[p] # req[p] \/ frame'[p] # frame[p]

\* the payload of the request thread p handles has stream true
StreamRequested(p) == req[p].data # None /\ req[p].data[1].stream = Some(TRUE)

\* C7: a request whose payload has stream true is forwarded upstream without
\* any fingerprint, Cache.get or Cache.set, no step of it changes the store or
\* its counters, and its answer is the upstream's with no X-Cache header;
\* this whether or not the same payload without stream is cached, and for
\* every such request again
C7_StreamingBypass ==
    [][\A p \in Threads :
        (StepOf(p) /\ StreamRequested(p)') =>
            /\ cache' = cache
            /\ stats' = stats
            /\ req'[p].n_hash = 0 /\ req'[p].n_get = 0 /\ req'[p].n_set = 0
            /\ (~req'[p].active) =>
                   /\ req'[p].n_forward = 1
                   /\ req'[p].response = Some(Returned(req'[p].result[1]))]_vars

\* the last of the requests is a streaming one, answered by the upstream while
\* a live entry for its payload was stored
C7_Witness ==
    /\ Finished(T1) /\ StreamRequested(T1) /\ req[T1].had_entry
    /\ req[T1].n_forward = 1
    /\ calls = 0

\* the request of thread p is a non-streaming one
PlainRequested(p) == req[p].data # None /\ req[p].data[1].stream # Some(TRUE)

\* C8: a non-streaming request makes exactly one Cache.get; when that returns
\* a value the request is answered from it with no upstream call and no
\* Cache.set, when it returns absent there is exactly one upstream call and
\* at most one Cache.set; a request not answered from the cache, streaming or
\* not, makes exactly one upstream call
C8_OneGetOneUpstream ==
    \A p \in Threads :
        /\ PlainRequested(p) =>
            /\ req[p].n_hash = 1 /\ req[p].n_get = 1
            /\ req[p].n_forward <= 1 /\ req[p].n_set <= req[p].n_forward
            /\ (req[p].n_forward = 1) => req[p].cached = None
            /\ (pc[p] \in {"get_select", "get_write"}) => req[p].n_forward = 0
            /\ Finished(p) =>
                  IF req[p].cached # None
                  THEN /\ req[p].n_forward = 0 /\ req[p].n_set = 0
                       /\ req[p].response = Some(Jsonify(req[p].cached, "HIT"))
                  ELSE req[p].n_forward = 1
        /\ (StreamRequested(p) /\ Finished(p)) => req[p].n_forward = 1

\* two answered requests seen in one place: the last one was answered from
\* the cache, after an earlier one had gone upstream once and stored the reply
C8_Witness ==
    /\ PlainRequested(T1) /\ Finished(T1)
    /\ req[T1].cached # None /\ req[T1].n_get = 1 /\ req[T1].n_forward = 0
    /\ stats.hits = 1 /\ stats.misses >= 1

\* an HTTP success status
IsSuccessStatus(st) == st \in 200..299

\* the upstream call of thread p's request came back with an HTTP reply
Replied(p) == req[p].result # None /\ req[p].result[1].kind = "Response"

\* Cache.set was called with the key of the request, the body of the reply
\* and the model of the payload
SetArgsOk(p) ==
    /\ frame[p].name = "set"
    /\ frame[p].key = req[p].cache_key
    /\ dumps(frame[p].response) = req[p].result[1].content
    /\ frame[p].model = GetOr(req[p].data[1].model, "unknown")
    /\ frame[p].ttl_arg = None

\* the key Cache.set is called with is the fingerprint of the payload
SetKeyOk(p) ==
    (pc[p] = "h_forward" /\ pc'[p] = "set_insert") =>
        frame'[p].key = CacheKeyOf(req[p].data[1])

\* the steps of a request from its upstream call to its answer, Cache.set
\* excepted, change neither the entries nor the counters
OnlySetWrites(p) ==
    (StepOf(p) /\ pc[p] \in {"h_cached", "h_forward", "h_stored"}) =>
        (cache' = cache /\ stats' = stats)

\* C9: the gateway calls Cache.set(key, response body, model) if and only if a
\* non-streaming request missed and its upstream call returned a success
\* status; otherwise the request creates or modifies no entry
C9_StoreOnSuccess ==
    [][\A p \in Threads :
        /\ OnlySetWrites(p)
        /\ SetKeyOk(p)
        /\ PlainRequested(p)' =>
            /\ (req[p].n_set = 1)' <=>
                   (req[p].cached = None /\ Replied(p)
                    /\ IsSuccessStatus(req[p].result[1].status))'
            /\ (req[p].n_set = 1)' => SetArgsOk(p)']_vars

\* C9 as the code has it: Cache.set(key, response body, model) is called if
\* and only if a non-streaming request missed and its upstream call returned
\* status 200 with a body that parses as JSON; otherwise the request creates
\* or modifies no entry
C9_StoreOnStatus200 ==
    [][\A p \in Threads :
        /\ OnlySetWrites(p)
        /\ SetKeyOk(p)
        /\ PlainRequested(p)' =>
            /\ (req[p].n_set = 1)' <=>
                   (req[p].cached = None /\ Replied(p)
                    /\ req[p].result[1].status = 200
                    /\ \E v \in Values : dumps(v) = req[p].result[1].content)'
            /\ (req[p].n_set = 1)' => SetArgsOk(p)']_vars

\* two requests have missed; the first stored nothing, the second went
\* upstream once and its reply is now the only entry
C9_Witness ==
    /\ PlainRequested(T1) /\ Finished(T1)
    /\ ~req[T1].had_entry /\ req[T1].cached = None
    /\ req[T1].n_forward = 1 /\ req[T1].n_set = 1
    /\ StoredKeys(cache) = {req[T1].cache_key}
    /\ ttl_seconds = None /\ max_entries = None
    /\ stats.misses = 2 /\ stats.hits = 0
    /\ calls = MaxReqs - 2

\* C10: when the upstream call fails at the transport level the request,
\* streaming or not, is answered with status 502, after one upstream call
\* and with nothing stored
C10_TransportFailure502 ==
    \A p \in Threads :
        (Finished(p) /\ req[p].result # None /\ req[p].result[1].kind = "tuple") =>
            /\ req[p].response[1].status = 502
            /\ req[p].n_forward = 1
            /\ req[p].n_set = 0

\* C11: the answer to every non-streaming request carries X-Cache, HIT or
\* MISS, whatever the upstream call gave; it is HIT exactly when the body came
\* from Cache.get; the answer to a streaming request carries no X-Cache
C11_CacheStatusHeader ==
    \A p \in Threads :
        Finished(p) =>
            /\ PlainRequested(p) =>
                /\ req[p].response[1].x_cache \in {Some("HIT"), Some("MISS")}
                /\ (req[p].response[1].x_cache = Some("HIT")) <=>
                      (req[p].cached # None
                       /\ req[p].response[1].body = dumps(req[p].cached))
            /\ StreamRequested(p) => req[p].response[1].x_cache = None

-----------------------------------------------------------------------------
(* Two request threads with the same payload, after at most one entry was
   stored under another key through the Cache API *)

PairPayload ==
    [messages |-> Some(<<UserMsg>>), model |-> Some("m1"), temperature |-> None,
     max_tokens |-> None, tools |-> None, stream |-> None]

PairReplies ==
    {[kind |-> "reply", status |-> 200, content |-> dumps(d)] : d \in Dicts}

InitPair == InitStore({None, Some(1)}, {None, Some(1)}, MaxPairCalls)

NextPair ==
    \/ AllIdle /\ cache = <<>> /\ SetCall(T1, "J", [id |-> 1], "m1", None)
    \/ \E p \in Threads : HandleChatCompletion(p, PairPayload)
    \/ \E p \in Threads : GetSelect(p)
    \/ \E p \in Threads : GetWrite(p)
    \/ \E p \in Threads : CheckCached(p)
    \/ \E p \in Threads, reply \in PairReplies : ForwardRequest(p, reply)
    \/ \E p \in Threads : SetInsert(p)
    \/ \E p \in Threads : EvictCount(p)
    \/ \E p \in Threads : EvictDelete(p)
    \/ \E p \in Threads : ReplyMiss(p)
    \/ Tick

SpecPair == InitPair /\ [][NextPair]_vars

\* the thread of the pair whose request arrived first
Earlier ==
    IF req[T1].before.hits + req[T1].before.misses
         <= req[T2].before.hits + req[T2].before.misses
    THEN T1 ELSE T2

\* both threads have answered a non-streaming request of the same key, both
\* lookups missed, both replies were stored, and no other lookup ran since
\* the first of the two arrived
PairDone ==
    /\ \A p \in Threads :
          /\ Finished(p) /\ PlainRequested(p) /\ pc[p] = "idle"
          /\ req[p].cached = None /\ req[p].n_set = 1
    /\ req[T1].cache_key = req[T2].cache_key
    /\ (stats.hits + stats.misses)
         - (req[Earlier].before.hits + req[Earlier].before.misses) = 2

\* C12: when two non-streaming requests of the same fingerprint both miss,
\* each makes its own upstream call and each writes the entry; afterwards the
\* store holds exactly one entry under the key, its value is the body of the
\* set that wrote last, and misses has grown by exactly 2
C12_NoCoalescing ==
    PairDone =>
        /\ \A p \in Threads : req[p].n_forward = 1
        /\ Cardinality({i \in DOMAIN cache : cache[i].key = req[T1].cache_key}) = 1
        /\ RowOf(cache, req[T1].cache_key).response
             = dumps(req[written[req[T1].cache_key].by].response_data)
        /\ stats.misses - req[Earlier].before.misses = 2

\* C12 for a store without a capacity limit
C12_NoCoalescingUnlimited ==
    (max_entries = None) => C12_NoCoalescing

-----------------------------------------------------------------------------
(* Cache.get and Cache.set on one key from two threads *)

RaceTtlArgs == {None, Some(0)}

InitRace == InitStore({None}, {None}, MaxRaceCalls)

NextRace ==
    \/ \E p \in Threads : GetCall(p, "A")
    \/ \E p \in Threads : GetSelect(p)
    \/ \E p \in Threads : GetWrite(p)
    \/ \E p \in Threads, v \in Dicts, t \in RaceTtlArgs : SetCall(p, "A", v, "m1", t)
    \/ \E p \in Threads : SetInsert(p)
    \/ Tick

SpecRace == InitRace /\ [][NextRace]_vars

\* C13: under every interleaving of get and set calls and a clock that only
\* moves forward, every stored entry has last_accessed >= created_at and no
\* two stored entries share a key
C13_EntryInvariant ==
    /\ \A i \in DOMAIN cache : cache[i].last_accessed >= cache[i].created_at
    /\ \A i, j \in DOMAIN cache : cache[i].key = cache[j].key => i = j

\* the part of C13 about keys
C13_KeysUnique ==
    \A i, j \in DOMAIN cache : cache[i].key = cache[j].key => i = j

-----------------------------------------------------------------------------
(* hash_request applied to two calls *)

\* one message with each of its fields given, absent or changed
HashMessages ==
    {UserMsg,
     [UserMsg EXCEPT !.role = Some("system")],
     [UserMsg EXCEPT !.role = None],
     [UserMsg EXCEPT !.role = Some("")],
     [UserMsg EXCEPT !.content = Some("yo")],
     [UserMsg EXCEPT !.name = Some("n1")],
     [UserMsg EXCEPT !.name = Some("n2")],
     [UserMsg EXCEPT !.tool_calls = Some("[1]")],
     [UserMsg EXCEPT !.tool_calls = Some("[2]")],
     [UserMsg EXCEPT !.tool_call_id = Some("c1")],
     [UserMsg EXCEPT !.tool_call_id = Some("c2")]}

\* the values each argument of a call can be changed to; keywords come as
\* <<name, value>> in the order the call gives them
ArgValues ==
    [messages |-> {<<>>, <<UserMsg, UserMsg>>} \cup {<<m>> : m \in HashMessages},
     model |-> {"m1", "m2"},
     temperature |-> {None, Some("0"), Some("0.7")},
     max_tokens |-> {None, Some("5"), Some("9")},
     tools |-> {None, Some(<<>>), Some(<<"{\"name\":\"t1\"}">>), Some(<<"{\"name\":\"t2\"}">>)},
     kwargs |-> {<<>>,
                 << <<"top_p", None>> >>,
                 << <<"top_p", Some("1")>> >>,
                 << <<"top_p", Some("2")>> >>,
                 << <<"seed", Some("1")>>, <<"top_p", Some("1")>> >>,
                 << <<"top_p", Some("1")>>, <<"seed", Some("1")>> >>,
                 << <<"top_p", Some("1")>>, <<"seed", None>> >>}]

BaseCalls ==
    {[messages |-> <<UserMsg>>, model |-> "m1", temperature |-> t,
      max_tokens |-> None, tools |-> None, kwargs |-> k] :
        t \in {None, Some("0.7")}, k \in {<<>>, << <<"top_p", Some("1")>> >>}}

\* two callers about to make the same call
InitHash ==
    /\ ttl_seconds = None
    /\ max_entries = None
    /\ cache = <<>>
    /\ stats = [hits |-> 0, misses |-> 0]
    /\ clock = 0
    /\ pc = [p \in Threads |-> "idle"]
    /\ frame = [p \in Threads |-> BlankFrame]
    /\ \E c \in BaseCalls : req = [p \in Threads |-> [NoReq EXCEPT !.data = Some(c)]]
    /\ calls = MaxHashEdits
    /\ written = <<>>
    /\ returned = [value |-> 0, absent |-> 0]

\* a caller passes another value for one argument
ChangeArg(p, arg, v) ==
    /\ calls > 0
    /\ req[p].n_hash = 0
    /\ v \in ArgValues[arg]
    /\ req' = [req EXCEPT ![p].data = Some([req[p].data[1] EXCEPT ![arg] = v])]
    /\ calls' = calls - 1
    /\ UNCHANGED <<ttl_seconds, max_entries, cache, stats, clock, pc, frame, written, returned>>

\* key = hash_request(messages, model, temperature, max_tokens, tools, **kwargs)
HashCall(p) ==
    /\ req[p].n_hash = 0
    /\ LET c == req[p].data[1]
       IN req' = [req EXCEPT ![p].cache_key =
                        hash_request(c.messages, c.model, c.temperature,
                                     c.max_tokens, c.tools, c.kwargs),
                             ![p].n_hash = 1]
    /\ UNCHANGED <<ttl_seconds, max_entries, cache, stats, clock, pc, frame, calls, written, returned>>

NextHash ==
    \/ \E p \in Threads, v \in ArgValues.messages : ChangeArg(p, "messages", v)
    \/ \E p \in Threads, v \in ArgValues.model : ChangeArg(p, "model", v)
    \/ \E p \in Threads, v \in ArgValues.temperature : ChangeArg(p, "temperature", v)
    \/ \E p \in Threads, v \in ArgValues.max_tokens : ChangeArg(p, "max_tokens", v)
    \/ \E p \in Threads, v \in ArgValues.tools : ChangeArg(p, "tools", v)
    \/ \E p \in Threads, v \in ArgValues.kwargs : ChangeArg(p, "kwargs", v)
    \/ \E p \in Threads : HashCall(p)

SpecHash == InitHash /\ [][NextHash]_vars

\* the keywords of a call that carry a value, whatever their order
GivenKeywords(c) ==
    {<<c.kwargs[i][1], c.kwargs[i][2]>> : i \in {j \in DOMAIN c.kwargs : c.kwargs[j][2] # None}}

\* two calls that differ at most in the order of their keywords and in
\* keywords passed as None
SameButKeywords(a, b) ==
    /\ a.messages = b.messages /\ a.model = b.model
    /\ a.temperature = b.temperature /\ a.max_tokens = b.max_tokens
    /\ a.tools = b.tools
    /\ GivenKeywords(a) = GivenKeywords(b)

\* the fields of a call that enter its fingerprint, with their values: the
\* five fields of each message (an absent role or content counts as ""), the
\* model, and the parameters that are given (tools only when non-empty)
Included(c) ==
    [messages |-> [i \in 1..Len(c.messages) |->
                      [role |-> GetOr(c.messages[i].role, ""),
                       content |-> GetOr(c.messages[i].content, ""),
                       name |-> c.messages[i].name,
                       tool_calls |-> c.messages[i].tool_calls,
                       tool_call_id |-> c.messages[i].tool_call_id]],
     model |-> c.model,
     temperature |-> c.temperature,
     max_tokens |-> c.max_tokens,
     tools |-> IF c.tools # None /\ c.tools[1] # <<>> THEN c.tools ELSE None,
     keywords |-> GivenKeywords(c)]

BothHashed == \A p \in Threads : req[p].n_hash = 1

-----------------------------------------------------------------------------
(* Entries past their expiry in a bounded store, one caller *)

LazyTtlArgs == {None, Some(1)}

InitLazy == InitStore({None}, {None, Some(2)}, MaxLazyCalls)

NextLazy ==
    \/ \E k \in LruKeys : GetCall(T1, k)
    \/ GetSelect(T1)
    \/ GetWrite(T1)
    \/ \E k \in LruKeys, t \in LazyTtlArgs : SetCall(T1, k, [id |-> 1], "m1", t)
    \/ SetInsert(T1)
    \/ EvictCount(T1)
    \/ EvictDelete(T1)
    \/ \E k \in LruKeys : DeleteCall(T1, k)
    \/ ClearCall(T1, None)
    \/ StatsCall(T1)
    \/ StatsCount(T1)
    \/ StatsModels(T1)
    \/ Tick

SpecLazy == InitLazy /\ [][NextLazy]_vars

\* the entry is past its expiry at the present instant
PastExpiry(r) == r.expires_at # None /\ r.expires_at[1] < clock

\* every entry that leaves the store in this step is removed by a get on its
\* key, a delete, a clear or the eviction of a set
RemovedOnlyByCalls ==
    \A k \in StoredKeys(cache) \ StoredKeys(cache') :
        \E p \in Threads :
            \/ pc[p] = "get_write" /\ pc'[p] # pc[p] /\ frame[p].key = k
            \/ IsDeleteStep(p) /\ frame'[p].key = k
            \/ IsClearStep(p)
            \/ pc[p] = "evict_delete" /\ pc'[p] # pc[p]

\* stats() counts every stored row, past its expiry or not
StatsCountsAll(p) ==
    /\ (pc[p] = "stats_count" /\ pc'[p] # pc[p]) => frame'[p].count = Cardinality(StoredKeys(cache))
    /\ (pc[p] = "stats_models" /\ pc'[p] # pc[p]) =>
          /\ frame'[p].snapshot[1].entries = Cardinality(StoredKeys(cache))
          /\ \A m \in Models :
                Cardinality({i \in DOMAIN cache : cache[i].model = m}) > 0 =>
                    /\ m \in DOMAIN frame'[p].snapshot[1].by_model
                    /\ frame'[p].snapshot[1].by_model[m]
                         = Cardinality({i \in DOMAIN cache : cache[i].model = m})

\* the eviction counts every stored row and removes the rows accessed longest
\* ago, past their expiry or not
EvictionIgnoresExpiry(p) ==
    /\ (pc[p] = "evict_count" /\ pc'[p] # pc[p]) =>
          (pc'[p] = "evict_delete" <=> Cardinality(StoredKeys(cache)) > max_entries[1])
    /\ (pc[p] = "evict_delete" /\ pc'[p] # pc[p]) =>
          /\ Len(cache') = max_entries[1]
          /\ \A i \in DOMAIN cache, j \in DOMAIN cache' :
                cache[i].key \notin StoredKeys(cache') =>
                    cache[i].last_accessed <= cache'[j].last_accessed

\* C15: an entry past its expiry is not removed by the passing of time: it
\* stays stored, is counted by stats() in entries and by_model, counts toward
\* max_entries and is ordered for eviction like any other entry, until a get
\* on its key, a delete, a clear or an eviction removes it
C15_LazyExpiry ==
    [][/\ (clock' # clock) => cache' = cache
       /\ RemovedOnlyByCalls
       /\ \A p \in Threads : StatsCountsAll(p) /\ EvictionIgnoresExpiry(p)]_vars

\* a set on a full store has evicted an entry not past its expiry, while an
\* entry past its expiry and accessed later stays, and stats() would count it
C15_Witness ==
    /\ pc[T1] = "idle" /\ frame[T1].name = "set"
    /\ max_entries = Some(2) /\ Len(cache) = 2
    /\ \E r \in frame[T1].evicted, i \in DOMAIN cache :
          /\ ~PastExpiry(r)
          /\ PastExpiry(cache[i])
          /\ cache[i].last_accessed > r.last_accessed

-----------------------------------------------------------------------------
(* Cache.clear *)

InitClear == InitStore({None}, {None}, MaxClearCalls)

NextClear ==
    \/ \E k \in StoreKeys : GetCall(T1, k)
    \/ GetSelect(T1)
    \/ GetWrite(T1)
    \/ \E k \in StoreKeys, t \in LazyTtlArgs : SetCall(T1, k, [id |-> 1], "m1", t)
    \/ SetInsert(T1)
    \/ \E d \in OlderThanArgs : ClearCall(T1, d)
    \/ Tick

SpecClear == InitClear /\ [][NextClear]_vars

\* the step in which thread p runs clear
ClearStep(p) == calls' = calls - 1 /\ frame'[p].name = "clear"

\* C16: clear with a duration removes exactly the entries created earlier than
\* now minus the duration and leaves every other entry as it is, those past
\* their expiry included; clear without argument removes every entry; neither
\* changes ttl_seconds or max_entries
C16_Clear ==
    [][\A p \in Threads :
        ClearStep(p) =>
            /\ IF frame'[p].older = None
               THEN cache' = <<>>
               ELSE LET cutoff == clock - frame'[p].older[1] * DaySeconds IN
                    /\ \A i \in DOMAIN cache :
                          IF cache[i].created_at < cutoff
                          THEN cache[i].key \notin StoredKeys(cache')
                          ELSE \E j \in DOMAIN cache' : cache'[j] = cache[i]
                    /\ \A j \in DOMAIN cache' : \E i \in DOMAIN cache : cache[i] = cache'[j]
            /\ ttl_seconds' = ttl_seconds
            /\ max_entries' = max_entries]_vars

\* clear(1) has removed an entry created more than a day ago and has left one
\* created later, although that one is past its expiry
C16_Witness ==
    /\ frame[T1].name = "clear" /\ frame[T1].older = Some(1)
    /\ frame[T1].evicted # {}
    /\ \E i \in DOMAIN cache : PastExpiry(cache[i])

-----------------------------------------------------------------------------
(* Cache.set over an existing entry, one caller *)

SetModels == {"m1", "m2"}

InitSet == InitStore({None, Some(1)}, {None}, MaxSetCalls)

NextSet ==
    \/ \E k \in StoreKeys : GetCall(T1, k)
    \/ GetSelect(T1)
    \/ GetWrite(T1)
    \/ \E k \in StoreKeys, v \in Dicts, m \in SetModels, t \in TtlArgs : SetCall(T1, k, v, m, t)
    \/ SetInsert(T1)
    \/ Tick

SpecSet == InitSet /\ [][NextSet]_vars

\* the step in which the set call of thread p writes its row
InsertStep(p) == pc[p] = "set_insert" /\ pc'[p] # pc[p]

\* expires_at as the claim gives it: from the override if given, else from the
\* default of the store, else absent
ExpectedExpiry(f) ==
    IF f.ttl_arg # None THEN Some(f.now + f.ttl_arg[1])
    ELSE IF ttl_seconds # None THEN Some(f.now + ttl_seconds[1])
    ELSE None

\* C17: set(key, value, model, ttl_override) leaves under key an entry with the
\* new value and model, hit_count 0, created_at = last_accessed = now and
\* expires_at = now + ttl (the override, 0 included, else the default, else
\* absent), whatever was stored under key before; the insertion changes no
\* other entry
C17_SetReplaces ==
    [][\A p \in Threads :
        InsertStep(p) =>
            LET f == frame[p] IN
            /\ f.key \in StoredKeys(cache')
            /\ Cardinality({i \in DOMAIN cache' : cache'[i].key = f.key}) = 1
            /\ loads(RowOf(cache', f.key).response) = f.response
            /\ RowOf(cache', f.key).model = f.model
            /\ RowOf(cache', f.key).hit_count = 0
            /\ RowOf(cache', f.key).created_at = f.now
            /\ RowOf(cache', f.key).last_accessed = f.now
            /\ RowOf(cache', f.key).expires_at = ExpectedExpiry(f)
            /\ StoredKeys(cache') = StoredKeys(cache) \cup {f.key}
            /\ \A k \in StoredKeys(cache) \ {f.key} : RowOf(cache', k) = RowOf(cache, k)]_vars

\* a set has just replaced an entry that had been read, with another value,
\* another model and an override of 0 on a store with a default ttl
C17_Witness ==
    /\ pc[T1] = "idle" /\ frame[T1].name = "set" /\ calls = 0
    /\ frame[T1].ttl_arg = Some(0) /\ ttl_seconds = Some(1)
    /\ stats.hits = 1
    /\ Len(cache) = 1
    /\ cache[1].key = frame[T1].key /\ cache[1].hit_count = 0
    /\ cache[1].model = "m2" /\ cache[1].created_at > 0
    /\ cache[1].expires_at = Some(cache[1].created_at)

-----------------------------------------------------------------------------
(* Cache.get on a store that may hold more entries than max_entries *)

FrameTtlArgs == {None, Some(0)}

InitFrame == InitStore({None}, {None, Some(0), Some(1)}, MaxFrameCalls)

NextFrame ==
    \/ \E k \in LruKeys : GetCall(T1, k)
    \/ GetSelect(T1)
    \/ GetWrite(T1)
    \/ \E k \in LruKeys, t \in FrameTtlArgs : SetCall(T1, k, [id |-> 1], "m1", t)
    \/ SetInsert(T1)
    \/ EvictCount(T1)
    \/ EvictDelete(T1)
    \/ Tick

SpecFrame == InitFrame /\ [][NextFrame]_vars

\* a step of the get call of thread p
GetStep(p) == pc[p] \in {"get_select", "get_write"} /\ pc'[p] # pc[p]

\* C18: get(key) never starts the capacity eviction and leaves the entry of
\* every other key as it was (presence and all fields), also when the store
\* holds more than max_entries entries; the entry of key goes only when it is
\* expired
C18_GetFrame ==
    [][\A p \in Threads :
        GetStep(p) =>
            LET k == frame[p].key IN
            /\ pc'[p] \in {"get_write", "idle"}
            /\ StoredKeys(cache') \ {k} = StoredKeys(cache) \ {k}
            /\ \A j \in StoredKeys(cache) \ {k} : RowOf(cache', j) = RowOf(cache, j)
            /\ StoredKeys(cache') \subseteq StoredKeys(cache)
            /\ k \in StoredKeys(cache) \ StoredKeys(cache') =>
                   IsExpired(RowOf(cache, k).expires_at, frame[p].now)]_vars

-----------------------------------------------------------------------------
(* Cache.set with its eviction, from two threads, on a store with max_entries >= 1 *)

InitEvict == InitStore({None}, {Some(1), Some(2)}, MaxEvictCalls)

NextEvict ==
    \/ \E p \in Threads, k \in StoreKeys : SetCall(p, k, [id |-> 1], "m1", None)
    \/ \E p \in Threads : SetInsert(p)
    \/ \E p \in Threads : EvictCount(p)
    \/ \E p \in Threads : EvictDelete(p)
    \/ Tick

SpecEvict == InitEvict /\ [][NextEvict]_vars

\* the step in which the set call of thread p runs the DELETE of its eviction
EvictStep(p) == pc[p] = "evict_delete" /\ pc'[p] # pc[p]

\* C19: on a store with max_entries >= 1 the eviction that set(k, ...) runs
\* never removes the entry for k which that set has just written, also when
\* other entries have the same last_accessed: k is still stored when the set
\* returns
C19_KeepsNewKey ==
    [][\A p \in Threads :
        (EvictStep(p) /\ max_entries # None /\ max_entries[1] >= 1) =>
            LET k == frame[p].key IN
            (k \in StoredKeys(cache) /\ written[k].by = p) => k \in StoredKeys(cache')]_vars

-----------------------------------------------------------------------------
(* a get racing with a set on its key *)

\* the entry now stored under the key of f is the one the get of f read in
\* its SELECT: both come from the same set call
SameEntry(f) == f.read # None /\ f.read = Wrote(f.key)

\* the step in which the get call of thread p deletes or updates
GetWriteStep(p) == pc[p] = "get_write" /\ pc'[p] # pc[p]

\* C20: under every interleaving of a get(k) with a concurrent set(k, ...) the
\* side effects of the get apply only to the entry it read: when the entry
\* stored under k is not the one the get read, the get neither deletes it nor
\* changes its hit_count or last_accessed
C20_GetSetRace ==
    [][\A p \in Threads :
        GetWriteStep(p) =>
            LET k == frame[p].key IN
            (k \in StoredKeys(cache) /\ ~SameEntry(frame[p])) =>
                /\ k \in StoredKeys(cache')
                /\ RowOf(cache', k) = RowOf(cache, k)]_vars

-----------------------------------------------------------------------------
(* requests that differ in fields and headers the handler does not hash *)

\* the requests: the fields of the JSON payload and, under authorization,
\* the Authorization header sent with it; absent ones are None
SameRequests ==
    {[messages |-> Some(<<UserMsg>>), model |-> Some("m1"), temperature |-> t,
      max_tokens |-> None, tools |-> None, stream |-> None,
      top_p |-> tp, authorization |-> au] :
        t \in {None, Some("0.7")}, tp \in {None, Some("0.9")},
        au \in {None, Some("key1")}}

SameReplies ==
    {[kind |-> "reply", status |-> 200, content |-> dumps([id |-> n])] : n \in {1, 2}}
    \cup {[kind |-> "reply", status |-> 500, content |-> dumps([id |-> 2])]}

InitSame == InitStore({None, Some(0)}, {None}, MaxSameReqs)

\* the two clients take turns
Turn == IF calls % 2 = 0 THEN T1 ELSE T2

\* one request at a time
NextSame ==
    \/ \E data \in SameRequests : AllIdle /\ HandleChatCompletion(Turn, data)
    \/ \E p \in Threads : GetSelect(p)
    \/ \E p \in Threads : GetWrite(p)
    \/ \E p \in Threads : CheckCached(p)
    \/ \E p \in Threads, reply \in SameReplies : ForwardRequest(p, reply)
    \/ \E p \in Threads : SetInsert(p)
    \/ \E p \in Threads : ReplyMiss(p)
    \/ Tick

SpecSame == InitSame /\ [][NextSame]_vars

\* two requests agree on what the claim lists: messages, model, temperature,
\* max_tokens and tools
Agree(d, e) ==
    /\ d.messages = e.messages
    /\ d.model = e.model
    /\ d.temperature = e.temperature
    /\ d.max_tokens = e.max_tokens
    /\ d.tools = e.tools

\* the step in which the request of thread p arrives
Arrives(p) == pc[p] = "idle" /\ req'[p].active

\* the step in which the handler of thread p tests what Cache.get returned
Decides(p) == pc[p] = "h_cached" /\ pc'[p] # pc[p]

\* C21: non-streaming requests that agree on messages, model, temperature,
\* max_tokens and tools look up one and the same key, whatever their other
\* payload fields and their Authorization header; whether a request is a hit
\* and the body of the hit follow from the entry stored under that key when
\* the request arrived, and a hit is answered with no upstream call
C21_SameDecision ==
    [][\A p \in Threads :
        /\ (Arrives(p) /\ PlainRequested(p)') =>
              \A e \in SameRequests :
                  Agree(req'[p].data[1], e) =>
                      /\ CacheKeyOf(e) = req'[p].cache_key
                      /\ frame'[p].key = req'[p].cache_key
        /\ (Decides(p) /\ PlainRequested(p)) =>
              /\ IsHit(req[p].cached) <=>
                    (req[p].had_entry /\ frame[p].wrote[1].response # None)
              /\ IsHit(req[p].cached) =>
                    /\ Finished(p)'
                    /\ req'[p].n_forward = 0
                    /\ req'[p].response =
                           Some(Jsonify(frame[p].wrote[1].response, "HIT"))]_vars

\* a request without credentials and with another top_p is answered from the entry that a request with credentials had stored
C21_Witness ==
    /\ Finished(T1) /\ Finished(T2)
    /\ req[T1].n_set = 1 /\ req[T1].response[1].x_cache = Some("MISS")
    /\ req[T2].response[1].x_cache = Some("HIT") /\ req[T2].n_forward = 0
    /\ req[T1].data[1].authorization = Some("key1")
    /\ req[T2].data[1].authorization = None
    /\ req[T1].data[1].top_p # req[T2].data[1].top_p
    /\ req[T2].response[1].body = dumps(req[T1].response_data)

-----------------------------------------------------------------------------
(* the counters of the store against the answers of the gateway *)

\* what the request of thread p has added to the counters, one request at a time
HitsAdded(p) == stats.hits - req[p].before.hits
MissesAdded(p) == stats.misses - req[p].before.misses

\* the request of thread p was answered from the cache
ServedFromCache(p) ==
    /\ req[p].response[1].x_cache = Some("HIT")
    /\ req[p].n_forward = 0

\* C22: for every non-streaming request, hits is incremented if and only if
\* the answer is served from the cache with X-Cache HIT and no upstream call,
\* and misses is incremented if and only if the request is forwarded
\* upstream, whatever body was stored earlier, a JSON null included
C22_HitAccounting ==
    \A p \in Threads :
        (PlainRequested(p) /\ Finished(p)) =>
            /\ HitsAdded(p) \in {0, 1} /\ MissesAdded(p) \in {0, 1}
            /\ HitsAdded(p) = 1 <=> ServedFromCache(p)
            /\ MissesAdded(p) = 1 <=> req[p].n_forward = 1

\* the same for the requests whose Cache.get did not count a hit while
\* returning None
C22_HitAccountingNoNullHit ==
    \A p \in Threads :
        (PlainRequested(p) /\ Finished(p)
            /\ ~(HitsAdded(p) = 1 /\ req[p].cached = None)) =>
            /\ HitsAdded(p) \in {0, 1} /\ MissesAdded(p) \in {0, 1}
            /\ HitsAdded(p) = 1 <=> ServedFromCache(p)
            /\ MissesAdded(p) = 1 <=> req[p].n_forward = 1

====
